---------------------------- MODULE Spec2Model ----------------------------
(***************************************************************************)
(* A model of the ownership layer of src/src/cuda/borrow.rs over the       *)
(* status-code driver wrappers of src/src/cuda/result.rs.                  *)
(*                                                                         *)
(* One host thread runs the public operations of CudaDevice (new, alloc,   *)
(* take, release, synchronize, drop).  Every driver call of an operation   *)
(* is one step of the host thread; between two steps the device may        *)
(* execute operations that were enqueued on a stream (DeviceStep).  The    *)
(* native driver answers every call with a status chosen from Status.      *)
(***************************************************************************)
EXTENDS Integers, Sequences, FiniteSets, TLC

\* ---------------------------------------------------------------- bounds
MaxOps == 4          \* public operations started in one run
MaxDevs == 2         \* CudaDevice values alive at the same time
NumDevices == 2      \* devices the driver knows: ordinals 0 .. NumDevices-1
NumAddrs == 2        \* device addresses the driver can hand out
NumBufs == 2         \* host heap blocks (Box<T>) that can exist at a time
MaxByte == 1         \* a value of T is one of 0 .. MaxByte
MaxModules == 1      \* names under which a module can be registered

\* ------------------------------------------------------- program constants
NULL == 0            \* std::ptr::null_mut()
None == 0            \* Option::None of host_data

DevIds == 1 .. MaxDevs
Ordinals == 0 .. NumDevices          \* NumDevices itself is out of range
Addrs == 1 .. NumAddrs
Bufs == 1 .. NumBufs
Bytes == 0 .. MaxByte
ModNames == 1 .. MaxModules
\* Device memory nobody has written yet: reading it yields any value of Bytes.
Uninit == MaxByte + 1

CUDA_SUCCESS == "CUDA_SUCCESS"
CUDA_ERROR_INVALID_DEVICE == "CUDA_ERROR_INVALID_DEVICE"
CUDA_ERROR_OUT_OF_MEMORY == "CUDA_ERROR_OUT_OF_MEMORY"
CUDA_ERROR_UNKNOWN == "CUDA_ERROR_UNKNOWN"
Errors == {CUDA_ERROR_OUT_OF_MEMORY, CUDA_ERROR_UNKNOWN}
Status == {CUDA_SUCCESS} \cup Errors
NoErr == "none"

VARIABLES
    devs,        \* [DevIds -> CudaDevice]: the CudaDevice values of the program
    memHandles,  \* the InCudaMemory values that are alive
    heap,        \* the host heap: [Bufs -> [live, val]]
    pc,          \* position of the host thread
    loc,         \* locals of the running operation
    calls,       \* driver calls issued by the running / last operation
    result,      \* what the last operation returned
    opsLeft,     \* operations that may still be started
    ctxRef,      \* driver: retain count of each primary context
    current,     \* driver: current context of the calling thread
    streams,     \* driver: streams created and not destroyed
    queue,       \* driver: operations enqueued on each stream, FIFO
    dalloc,      \* driver: [Addrs -> owner], 0 = not allocated
    dmem,        \* driver: content of device memory
    allOk,       \* history: no driver call has returned an error so far
    foreign,     \* history: a handle was released through a CudaDevice other
                 \* than the one that made it
    released,    \* history: [Addrs -> how often release has taken a handle of
                 \* the allocation the driver last handed out at the address]
    balanced     \* history: no new has failed after its context retain and no
                 \* teardown call of a drop has failed

vars == <<devs, memHandles, heap, pc, loc, calls, result, opsLeft,
          ctxRef, current, streams, queue, dalloc, dmem, allOk, foreign, released, balanced>>
drvVars == <<ctxRef, current, streams, queue, dalloc, dmem>>

\* ------------------------------------------------------------- data types
NoDevice ==
    [live |-> FALSE, cu_device |-> NULL, cu_primary_ctx |-> NULL,
     cu_stream |-> NULL, loaded_modules |-> {}]

CudaDevice(dev, ctx, stream) ==
    [live |-> TRUE, cu_device |-> dev, cu_primary_ctx |-> ctx,
     cu_stream |-> stream, loaded_modules |-> {}]

\* device is the borrow ('device) of the CudaDevice that made the handle; made
\* and given record how the handle was made ("alloc" / "take" and the value
\* moved in), they are not fields of the struct.
InCudaMemory(h, ptr, host, made, given) ==
    [device |-> h, cu_device_ptr |-> ptr, host_data |-> host,
     made |-> made, given |-> given]

NoHandle == InCudaMemory(0, NULL, None, "none", 0)

NoLoc == [h |-> 0, ord |-> 0, dev |-> 0, ctx |-> NULL, ptr |-> NULL,
          buf |-> None, mods |-> {}, t |-> NoHandle]

\* What the last operation returned: ok / err is the Result, val and buf the
\* value and block of a returned Box, at the locals the operation ended with.
NoResult == [op |-> "none", ok |-> TRUE, err |-> NoErr, val |-> 0, buf |-> None,
             at |-> NoLoc]

Call(fn, arg, st) == [fn |-> fn, arg |-> arg, st |-> st]

\* The primary context of device dev, as a non-null handle.
CtxOf(dev) == dev + 1

\* Err(CudaError(CUDA_ERROR_UNKNOWN)) for whatever is not CUDA_SUCCESS
ResultOf_Fixed(st) ==
    IF st = CUDA_SUCCESS THEN [ok |-> TRUE, err |-> NoErr]
    ELSE [ok |-> FALSE, err |-> CUDA_ERROR_UNKNOWN]

\* CUresult::result: CUDA_SUCCESS is Ok(()), anything else Err(CudaError(self)).
ResultOf(st) ==
    IF st = CUDA_SUCCESS THEN [ok |-> TRUE, err |-> NoErr]
    ELSE [ok |-> FALSE, err |-> st]

Init ==
    /\ devs = [h \in DevIds |-> NoDevice]
    /\ memHandles = {}
    /\ heap = [b \in Bufs |-> [live |-> FALSE, val |-> 0]]
    /\ pc = "idle"
    /\ loc = NoLoc
    /\ calls = <<>>
    /\ result = NoResult
    /\ opsLeft = MaxOps
    /\ ctxRef = [d \in 0 .. NumDevices - 1 |-> 0]
    /\ current = NULL
    /\ streams = {}
    /\ queue = [h \in DevIds |-> <<>>]
    /\ dalloc = [a \in Addrs |-> 0]
    /\ dmem = [a \in Addrs |-> Uninit]
    /\ allOk = TRUE
    /\ balanced = TRUE
    /\ foreign = FALSE
    /\ released = [a \in Addrs |-> 0]


\* ------------------------------------------------------------ the driver
\* Each operator is one native entry point: what the call with status st does
\* to the driver's state.  A call that does not return CUDA_SUCCESS changes
\* nothing (out-parameters are populated only on success).  The queue of a
\* stream holds the enqueued operations that touch memory contents (zero-fill
\* and the two copies); a stream-ordered allocation or free changes who owns an
\* address when it is issued and has nothing left to execute.

\* cuDeviceGet: an out-of-range ordinal is answered CUDA_ERROR_INVALID_DEVICE.
DeviceGetStatus(ord) ==
    IF ord \in 0 .. NumDevices - 1 THEN Status ELSE {CUDA_ERROR_INVALID_DEVICE}

\* Addresses, host blocks and ordinals are names: two that nothing tells apart
\* (same content, no enqueued operation naming them, never used) give the same
\* runs up to renaming, and only the lowest of them is handed out.
AddrQueued(a) == \E s \in DevIds : \E i \in 1 .. Len(queue[s]) : queue[s][i].ptr = a
BufQueued(b) == \E s \in DevIds : \E i \in 1 .. Len(queue[s]) : queue[s][i].buf = b
OrdinalFresh(d) ==
    /\ d \in 0 .. NumDevices - 1
    /\ ctxRef[d] = 0
    /\ current # CtxOf(d)
    /\ \A h \in DevIds : devs[h].cu_primary_ctx # CtxOf(d)

\* cuMemAllocAsync / cuStreamSynchronize cannot succeed in every state.
FreeAddrs ==
    {a \in Addrs :
        /\ dalloc[a] = 0
        /\ ~\E a2 \in 1 .. a - 1 :
              /\ dalloc[a2] = 0 /\ dmem[a2] = dmem[a]
              /\ ~AddrQueued(a) /\ ~AddrQueued(a2)}
MallocStatus == IF FreeAddrs = {} THEN Errors ELSE Status
SyncStatus(stream) == IF queue[stream] = <<>> THEN Status ELSE Errors

Enqueue(stream, op, ptr, buf) ==
    [queue EXCEPT ![stream] = Append(@, [op |-> op, ptr |-> ptr, buf |-> buf])]

cuDevicePrimaryCtxRetain(dev, st) ==
    /\ ctxRef' = IF st = CUDA_SUCCESS THEN [ctxRef EXCEPT ![dev] = @ + 1] ELSE ctxRef
    /\ UNCHANGED <<current, streams, queue, dalloc, dmem>>

cuDevicePrimaryCtxRelease(dev, st) ==
    /\ ctxRef' = IF st = CUDA_SUCCESS THEN [ctxRef EXCEPT ![dev] = @ - 1] ELSE ctxRef
    /\ UNCHANGED <<current, streams, queue, dalloc, dmem>>

cuCtxSetCurrent(ctx, st) ==
    /\ current' = IF st = CUDA_SUCCESS THEN ctx ELSE current
    /\ UNCHANGED <<ctxRef, streams, queue, dalloc, dmem>>

cuStreamCreate(stream, st) ==
    /\ streams' = IF st = CUDA_SUCCESS THEN streams \cup {stream} ELSE streams
    /\ UNCHANGED <<ctxRef, current, queue, dalloc, dmem>>

cuStreamDestroy(stream, st) ==
    /\ streams' = IF st = CUDA_SUCCESS THEN streams \ {stream} ELSE streams
    /\ UNCHANGED <<ctxRef, current, queue, dalloc, dmem>>

cuMemAllocAsync(ptr, owner, stream, st) ==
    /\ dalloc' = IF st = CUDA_SUCCESS THEN [dalloc EXCEPT ![ptr] = owner] ELSE dalloc
    /\ UNCHANGED <<ctxRef, current, streams, queue, dmem>>

cuMemFreeAsync(ptr, stream, st) ==
    /\ dalloc' = IF st = CUDA_SUCCESS THEN [dalloc EXCEPT ![ptr] = 0] ELSE dalloc
    /\ UNCHANGED <<ctxRef, current, streams, queue, dmem>>

cuMemsetD8Async(ptr, stream, st) ==
    /\ queue' = IF st = CUDA_SUCCESS THEN Enqueue(stream, "memset", ptr, None) ELSE queue
    /\ UNCHANGED <<ctxRef, current, streams, dalloc, dmem>>

cuMemcpyHtoDAsync(ptr, buf, stream, st) ==
    /\ queue' = IF st = CUDA_SUCCESS THEN Enqueue(stream, "htod", ptr, buf) ELSE queue
    /\ UNCHANGED <<ctxRef, current, streams, dalloc, dmem>>

cuMemcpyDtoHAsync(buf, ptr, stream, st) ==
    /\ queue' = IF st = CUDA_SUCCESS THEN Enqueue(stream, "dtoh", ptr, buf) ELSE queue
    /\ UNCHANGED <<ctxRef, current, streams, dalloc, dmem>>

\* cuInit, cuStreamSynchronize, cuModuleUnload: no state of this model changes.
NoDriverEffect == UNCHANGED drvVars

\* The device executes the oldest operation of a stream.  A host-to-device copy
\* reads the host block when it executes; reading a block that has been
\* deallocated yields any value.  A device-to-host copy writes the host block
\* when it executes, whoever owns the block by then; what a deallocated block
\* holds is never read again (Box::new and alloc_zeroed overwrite it), so it is
\* kept as 0.
DeviceStep(stream) ==
    /\ queue[stream] # <<>>
    /\ LET o == Head(queue[stream]) IN
       /\ queue' = [queue EXCEPT ![stream] = Tail(@)]
       /\ IF o.op = "memset" THEN dmem' = [dmem EXCEPT ![o.ptr] = 0]
          ELSE IF o.op = "htod"
               THEN \E v \in (IF heap[o.buf].live THEN {heap[o.buf].val} ELSE Bytes) :
                        dmem' = [dmem EXCEPT ![o.ptr] = v]
               ELSE dmem' = dmem
       /\ IF o.op = "dtoh" /\ heap[o.buf].live
          THEN \E v \in (IF dmem[o.ptr] = Uninit THEN Bytes ELSE {dmem[o.ptr]}) :
                   heap' = [heap EXCEPT ![o.buf].val = v]
          ELSE heap' = heap
    /\ UNCHANGED <<devs, memHandles, pc, loc, calls, result, opsLeft,
                   ctxRef, current, streams, dalloc, allOk, foreign, released, balanced>>

\* ------------------------------------------------------- the host thread
\* The driver calls new issues after primary_ctx_retain, and those of Drop.
AfterRetain ==
    {"cuCtxSetCurrent", "cuStreamCreate", "cuModuleUnload", "cuStreamDestroy",
     "cuDevicePrimaryCtxRelease"}

\* An operation starts with its first driver call.
Begin(fn, arg, st) ==
    /\ pc = "idle"
    /\ opsLeft > 0
    /\ opsLeft' = opsLeft - 1
    /\ calls' = <<Call(fn, arg, st)>>
    /\ allOk' = (allOk /\ st = CUDA_SUCCESS)
    /\ balanced' = (balanced /\ (st = CUDA_SUCCESS \/ fn \notin AfterRetain))
    /\ UNCHANGED foreign

\* An operation that returns from its first statement: its locals are l.
ReturnFrom(l, op, r) ==
    /\ pc' = "idle"
    /\ loc' = NoLoc
    /\ result' = [NoResult EXCEPT !.op = op, !.ok = r.ok, !.err = r.err, !.at = l]

Issue(fn, arg, st) ==
    /\ calls' = Append(calls, Call(fn, arg, st))
    /\ allOk' = (allOk /\ st = CUDA_SUCCESS)
    /\ balanced' = (balanced /\ (st = CUDA_SUCCESS \/ fn \notin AfterRetain))
    /\ UNCHANGED <<opsLeft, foreign, released>>

\* A step that issues no driver call.
Silent == UNCHANGED <<calls, allOk, opsLeft, foreign, released, balanced>>

\* The operation returns r to its caller.
Return(op, r, val, buf) ==
    /\ pc' = "idle"
    /\ loc' = NoLoc
    /\ result' = [op |-> op, ok |-> r.ok, err |-> r.err, val |-> val, buf |-> buf,
                  at |-> loc]

\* The operation goes on; the caller holds no result while it runs.
Goto(label, newLoc) ==
    /\ pc' = label
    /\ loc' = newLoc
    /\ result' = NoResult

BoxDrop(b) == [heap EXCEPT ![b] = [live |-> FALSE, val |-> 0]]
BoxNew(b, v) == [heap EXCEPT ![b] = [live |-> TRUE, val |-> v]]
FreeBufs ==
    {b \in Bufs :
        /\ ~heap[b].live
        /\ ~\E b2 \in 1 .. b - 1 : ~heap[b2].live /\ ~BufQueued(b) /\ ~BufQueued(b2)}

\* A slot for the value new() will return; its stream handle is the slot.
FreeSlots == {h \in DevIds : ~devs[h].live /\ queue[h] = <<>>}

\* t: InCudaMemory<T> is taken by value: the caller's handle is gone.
MoveOut_Kept(t) == memHandles

MoveOut(t) == memHandles \ {t}

\* ---- CudaDevice::new
NewInit(ordinal) ==
    /\ pc = "idle"
    /\ FreeSlots # {}
    /\ ~\E d2 \in 0 .. ordinal - 1 : OrdinalFresh(ordinal) /\ OrdinalFresh(d2)
    /\ \E st \in Status :
         LET l == [NoLoc EXCEPT !.ord = ordinal,
                                !.h = CHOOSE h \in FreeSlots : \A g \in FreeSlots : h <= g]
         IN /\ Begin("cuInit", 0, st)
            /\ IF ResultOf(st).ok
               THEN Goto("new_get", l)
               ELSE ReturnFrom(l, "new", ResultOf(st))
    /\ NoDriverEffect
    /\ UNCHANGED <<devs, memHandles, heap, released>>

NewGet ==
    /\ pc = "new_get"
    /\ \E st \in DeviceGetStatus(loc.ord) :
         /\ Issue("cuDeviceGet", loc.ord, st)
         /\ IF ResultOf(st).ok
            THEN Goto("new_retain", [loc EXCEPT !.dev = loc.ord])
            ELSE Return("new", ResultOf(st), 0, None)
    /\ NoDriverEffect
    /\ UNCHANGED <<devs, memHandles, heap>>

NewRetain ==
    /\ pc = "new_retain"
    /\ \E st \in Status :
         /\ Issue("cuDevicePrimaryCtxRetain", loc.dev, st)
         /\ cuDevicePrimaryCtxRetain(loc.dev, st)
         /\ IF ResultOf(st).ok
            THEN Goto("new_set_current", [loc EXCEPT !.ctx = CtxOf(loc.dev)])
            ELSE Return("new", ResultOf(st), 0, None)
    /\ UNCHANGED <<devs, memHandles, heap>>

\* result::ctx::set_current(..) with the Result not looked at
NewSetCurrent_Unchecked ==
    /\ pc = "new_set_current"
    /\ \E st \in Status :
         /\ Issue("cuCtxSetCurrent", loc.ctx, st)
         /\ cuCtxSetCurrent(loc.ctx, st)
         /\ Goto("new_stream", loc)
    /\ UNCHANGED <<devs, memHandles, heap>>

NewSetCurrent ==
    /\ pc = "new_set_current"
    /\ \E st \in Status :
         /\ Issue("cuCtxSetCurrent", loc.ctx, st)
         /\ cuCtxSetCurrent(loc.ctx, st)
         /\ IF ResultOf(st).ok
            THEN Goto("new_stream", loc)
            ELSE Return("new", ResultOf(st), 0, None)
    /\ UNCHANGED <<devs, memHandles, heap>>

\* Ok(Self { .. }): the value new returns is devs[loc.h]
NewStream ==
    /\ pc = "new_stream"
    /\ \E st \in Status :
         /\ Issue("cuStreamCreate", loc.h, st)
         /\ cuStreamCreate(loc.h, st)
         /\ devs' = IF ResultOf(st).ok
                    THEN [devs EXCEPT ![loc.h] = CudaDevice(loc.dev, loc.ctx, loc.h)]
                    ELSE devs
         /\ Return("new", ResultOf(st), 0, None)
    /\ UNCHANGED <<memHandles, heap>>

\* ---- CudaDevice::alloc
AllocMalloc(h) ==
    /\ pc = "idle"
    /\ devs[h].live
    /\ \E st \in MallocStatus :
         \E a \in (IF st = CUDA_SUCCESS THEN FreeAddrs ELSE {NULL}) :
           LET l == [NoLoc EXCEPT !.h = h, !.ptr = a] IN
           /\ Begin("cuMemAllocAsync", devs[h].cu_stream, st)
           /\ cuMemAllocAsync(a, h, devs[h].cu_stream, st)
           /\ released' = IF ResultOf(st).ok THEN [released EXCEPT ![a] = 0]
                          ELSE released
           /\ IF ResultOf(st).ok
              THEN Goto("alloc_memset", l)
              ELSE ReturnFrom(l, "alloc", ResultOf(st))
    /\ UNCHANGED <<devs, memHandles, heap>>

AllocMemset ==
    /\ pc = "alloc_memset"
    /\ \E st \in Status :
         /\ Issue("cuMemsetD8Async", loc.ptr, st)
         /\ cuMemsetD8Async(loc.ptr, devs[loc.h].cu_stream, st)
         /\ memHandles' = IF ResultOf(st).ok
                          THEN memHandles \cup {InCudaMemory(loc.h, loc.ptr, None, "alloc", 0)}
                          ELSE memHandles
         /\ Return("alloc", ResultOf(st), 0, None)
    /\ UNCHANGED <<devs, heap>>

\* ---- CudaDevice::take; the caller's Box::new(v) is block b
TakeMalloc(h, v) ==
    /\ pc = "idle"
    /\ devs[h].live
    /\ \E b \in FreeBufs :
       \E st \in MallocStatus :
         \E a \in (IF st = CUDA_SUCCESS THEN FreeAddrs ELSE {NULL}) :
           LET l == [NoLoc EXCEPT !.h = h, !.ptr = a, !.buf = b,
                                  !.t = InCudaMemory(h, a, b, "take", v)] IN
           /\ Begin("cuMemAllocAsync", devs[h].cu_stream, st)
           /\ cuMemAllocAsync(a, h, devs[h].cu_stream, st)
           /\ released' = IF ResultOf(st).ok THEN [released EXCEPT ![a] = 0]
                          ELSE released
           /\ IF ResultOf(st).ok
              THEN /\ Goto("take_copy", l)
                   /\ heap' = BoxNew(b, v)
              ELSE /\ ReturnFrom(l, "take", ResultOf(st))
                   /\ heap' = heap
    /\ UNCHANGED <<devs, memHandles>>

\* host_data: None, the Box let go when take returns ("then the CPU copy is freed")
TakeCopy_DropsHost ==
    /\ pc = "take_copy"
    /\ \E st \in Status :
         /\ Issue("cuMemcpyHtoDAsync", loc.ptr, st)
         /\ cuMemcpyHtoDAsync(loc.ptr, loc.buf, devs[loc.h].cu_stream, st)
         /\ memHandles' = IF ResultOf(st).ok
                          THEN memHandles \cup {[loc.t EXCEPT !.host_data = None]}
                          ELSE memHandles
         /\ heap' = BoxDrop(loc.buf)
         /\ Return("take", ResultOf(st), 0, None)
    /\ UNCHANGED devs

\* on Err the device memory is freed again before take returns
TakeCopy_Rollback ==
    /\ pc = "take_copy"
    /\ \E st \in Status :
         /\ allOk' = (allOk /\ st = CUDA_SUCCESS)
         /\ UNCHANGED <<opsLeft, foreign, released, balanced>>
         /\ IF ResultOf(st).ok
            THEN /\ calls' = Append(calls, Call("cuMemcpyHtoDAsync", loc.ptr, st))
                 /\ cuMemcpyHtoDAsync(loc.ptr, loc.buf, devs[loc.h].cu_stream, st)
                 /\ memHandles' = memHandles \cup {loc.t}
                 /\ heap' = heap
            ELSE /\ calls' = calls \o <<Call("cuMemcpyHtoDAsync", loc.ptr, st),
                                         Call("cuMemFreeAsync", loc.ptr, CUDA_SUCCESS)>>
                 /\ cuMemFreeAsync(loc.ptr, devs[loc.h].cu_stream, CUDA_SUCCESS)
                 /\ memHandles' = memHandles
                 /\ heap' = BoxDrop(loc.buf)
         /\ Return("take", ResultOf(st), 0, None)
    /\ UNCHANGED devs

\* Some(host_data) keeps the Box in the handle; on Err the Box is let go
TakeCopy ==
    /\ pc = "take_copy"
    /\ \E st \in Status :
         /\ Issue("cuMemcpyHtoDAsync", loc.ptr, st)
         /\ cuMemcpyHtoDAsync(loc.ptr, loc.buf, devs[loc.h].cu_stream, st)
         /\ IF ResultOf(st).ok
            THEN /\ memHandles' = memHandles \cup {loc.t}
                 /\ heap' = heap
            ELSE /\ memHandles' = memHandles
                 /\ heap' = BoxDrop(loc.buf)
         /\ Return("take", ResultOf(st), 0, None)
    /\ UNCHANGED devs

\* release that copies into a fresh zeroed block whatever t.host_data holds
ReleaseCopy_AlwaysFresh(h, t) ==
    /\ pc = "idle"
    /\ opsLeft > 0
    /\ devs[h].live
    /\ t \in memHandles
    /\ \E b \in FreeBufs :
       \E st \in Status :
         LET kept == IF t.host_data # None THEN BoxDrop(t.host_data) ELSE heap
             l == [NoLoc EXCEPT !.h = h, !.ptr = t.cu_device_ptr, !.buf = b, !.t = t]
         IN
         /\ opsLeft' = opsLeft - 1
         /\ calls' = <<Call("cuMemcpyDtoHAsync", t.cu_device_ptr, st)>>
         /\ allOk' = (allOk /\ st = CUDA_SUCCESS)
         /\ foreign' = (foreign \/ t.device # h)
         /\ UNCHANGED balanced
         /\ released' = [released EXCEPT ![t.cu_device_ptr] = @ + 1]
         /\ cuMemcpyDtoHAsync(b, t.cu_device_ptr, devs[h].cu_stream, st)
         /\ memHandles' = MoveOut(t)
         /\ IF ResultOf(st).ok
            THEN /\ Goto("release_sync", l)
                 /\ heap' = [kept EXCEPT ![b] = [live |-> TRUE, val |-> 0]]
            ELSE /\ ReturnFrom(l, "release", ResultOf(st))
                 /\ heap' = kept
    /\ UNCHANGED devs

\* ---- CudaDevice::release; t is moved into the call.  The destination is the
\* retained Box, or a fresh zeroed block b.
ReleaseCopy(h, t) ==
    /\ pc = "idle"
    /\ opsLeft > 0
    /\ devs[h].live
    /\ t \in memHandles
    /\ \E b \in (IF t.host_data # None THEN {t.host_data} ELSE FreeBufs) :
       \E st \in Status :
         LET host == IF t.host_data # None THEN heap ELSE BoxNew(b, 0)
             l == [NoLoc EXCEPT !.h = h, !.ptr = t.cu_device_ptr, !.buf = b, !.t = t]
         IN
         /\ opsLeft' = opsLeft - 1
         /\ calls' = <<Call("cuMemcpyDtoHAsync", t.cu_device_ptr, st)>>
         /\ allOk' = (allOk /\ st = CUDA_SUCCESS)
         /\ foreign' = (foreign \/ t.device # h)
         /\ UNCHANGED balanced
         /\ released' = [released EXCEPT ![t.cu_device_ptr] = @ + 1]
         /\ cuMemcpyDtoHAsync(b, t.cu_device_ptr, devs[h].cu_stream, st)
         /\ memHandles' = MoveOut(t)
         /\ IF ResultOf(st).ok
            THEN /\ Goto("release_sync", l)
                 /\ heap' = host
            ELSE /\ ReturnFrom(l, "release", ResultOf(st))
                 /\ heap' = BoxDrop(b)
    /\ UNCHANGED devs

\* self.synchronize(); with the Result not looked at
ReleaseSync_Unchecked ==
    /\ pc = "release_sync"
    /\ \E st \in SyncStatus(devs[loc.h].cu_stream) :
         /\ Issue("cuStreamSynchronize", devs[loc.h].cu_stream, st)
         /\ Goto("release_free", loc)
    /\ NoDriverEffect
    /\ UNCHANGED <<devs, memHandles, heap>>

\* self.synchronize()?
ReleaseSync ==
    /\ pc = "release_sync"
    /\ \E st \in SyncStatus(devs[loc.h].cu_stream) :
         /\ Issue("cuStreamSynchronize", devs[loc.h].cu_stream, st)
         /\ IF ResultOf(st).ok
            THEN /\ Goto("release_free", loc)
                 /\ heap' = heap
            ELSE /\ Return("release", ResultOf(st), 0, None)
                 /\ heap' = BoxDrop(loc.buf)
    /\ NoDriverEffect
    /\ UNCHANGED <<devs, memHandles>>

\* Ok(host_data): the caller reads the returned value and lets the Box go.
ReleaseFree ==
    /\ pc = "release_free"
    /\ \E st \in Status :
         /\ Issue("cuMemFreeAsync", loc.ptr, st)
         /\ cuMemFreeAsync(loc.ptr, devs[loc.h].cu_stream, st)
         /\ IF ResultOf(st).ok
            THEN Return("release", ResultOf(st), heap[loc.buf].val, loc.buf)
            ELSE Return("release", ResultOf(st), 0, None)
         /\ heap' = BoxDrop(loc.buf)
    /\ UNCHANGED <<devs, memHandles>>

\* Ok(()) whatever stream::synchronize returned
Synchronize_Unchecked(h) ==
    /\ pc = "idle"
    /\ devs[h].live
    /\ \E st \in SyncStatus(devs[h].cu_stream) :
         /\ Begin("cuStreamSynchronize", devs[h].cu_stream, st)
         /\ ReturnFrom([NoLoc EXCEPT !.h = h], "synchronize", ResultOf(CUDA_SUCCESS))
    /\ NoDriverEffect
    /\ UNCHANGED <<devs, memHandles, heap, released>>

\* ---- CudaDevice::synchronize
Synchronize(h) ==
    /\ pc = "idle"
    /\ devs[h].live
    /\ \E st \in SyncStatus(devs[h].cu_stream) :
         /\ Begin("cuStreamSynchronize", devs[h].cu_stream, st)
         /\ ReturnFrom([NoLoc EXCEPT !.h = h], "synchronize", ResultOf(st))
    /\ NoDriverEffect
    /\ UNCHANGED <<devs, memHandles, heap, released>>

\* ---- an InCudaMemory goes out of scope: it has no Drop, only its Box is let go
DropHandle(t) ==
    /\ pc = "idle"
    /\ t \in memHandles
    /\ memHandles' = memHandles \ {t}
    /\ heap' = IF t.host_data # None THEN BoxDrop(t.host_data) ELSE heap
    /\ UNCHANGED <<devs, pc, loc, result>>
    /\ Silent
    /\ NoDriverEffect

\* ---- a module is registered under name m (crate code outside these files)
LoadModule(h, m) ==
    /\ pc = "idle"
    /\ devs[h].live
    /\ m \notin devs[h].loaded_modules
    /\ \E st \in Status :
         /\ Begin("cuModuleLoad", m, st)
         /\ devs' = IF ResultOf(st).ok
                    THEN [devs EXCEPT ![h].loaded_modules = @ \cup {m}]
                    ELSE devs
         /\ ReturnFrom([NoLoc EXCEPT !.h = h], "load_module", ResultOf(st))
    /\ NoDriverEffect
    /\ UNCHANGED <<memHandles, heap, released>>

\* ---- Drop for CudaDevice
\* .unwrap() on an Err: the thread panics in the middle of drop
Panic(st) ==
    /\ pc' = "panicked"
    /\ loc' = NoLoc
    /\ result' = [NoResult EXCEPT !.op = "drop", !.ok = FALSE,
                                  !.err = ResultOf(st).err, !.at = loc]

\* The value goes out of scope; no InCudaMemory borrows it any more.
DropStart(h) ==
    /\ pc = "idle"
    /\ opsLeft > 0
    /\ devs[h].live
    /\ \A t \in memHandles : t.device # h
    /\ opsLeft' = opsLeft - 1
    /\ calls' = <<>>
    /\ Goto("drop_modules", [NoLoc EXCEPT !.h = h, !.dev = devs[h].cu_device,
                                          !.mods = devs[h].loaded_modules])
    /\ UNCHANGED <<devs, memHandles, heap, allOk, foreign, released, balanced>>
    /\ NoDriverEffect

\* for (_, module) in self.loaded_modules.drain(): a panic lets the Drain go,
\* which removes what is left of the map
DropUnload ==
    /\ pc = "drop_modules"
    /\ \E m \in devs[loc.h].loaded_modules :
       \E st \in Status :
         /\ Issue("cuModuleUnload", m, st)
         /\ IF ResultOf(st).ok
            THEN /\ devs' = [devs EXCEPT ![loc.h].loaded_modules = @ \ {m}]
                 /\ UNCHANGED <<pc, loc, result>>
            ELSE /\ devs' = [devs EXCEPT ![loc.h].loaded_modules = {},
                                         ![loc.h].live = FALSE]
                 /\ Panic(st)
    /\ NoDriverEffect
    /\ UNCHANGED <<memHandles, heap>>

\* the stream destroyed without waiting for the drain loop to end
DropStream_Early ==
    /\ pc = "drop_modules"
    /\ \E st \in Status :
         /\ Issue("cuStreamDestroy", devs[loc.h].cu_stream, st)
         /\ cuStreamDestroy(devs[loc.h].cu_stream, st)
         /\ IF ResultOf(st).ok
            THEN /\ devs' = [devs EXCEPT ![loc.h].cu_stream = NULL]
                 /\ Goto("drop_ctx", loc)
            ELSE /\ devs' = [devs EXCEPT ![loc.h].cu_stream = NULL,
                                         ![loc.h].live = FALSE]
                 /\ Panic(st)
    /\ UNCHANGED <<memHandles, heap>>

DropStream ==
    /\ pc = "drop_modules"
    /\ devs[loc.h].loaded_modules = {}
    /\ LET stream == devs[loc.h].cu_stream IN
       IF stream # NULL
       THEN \E st \in Status :
              /\ Issue("cuStreamDestroy", stream, st)
              /\ cuStreamDestroy(stream, st)
              /\ IF ResultOf(st).ok
                 THEN /\ devs' = [devs EXCEPT ![loc.h].cu_stream = NULL]
                      /\ Goto("drop_ctx", loc)
                 ELSE /\ devs' = [devs EXCEPT ![loc.h].cu_stream = NULL,
                                              ![loc.h].live = FALSE]
                      /\ Panic(st)
       ELSE /\ Goto("drop_ctx", loc)
            /\ devs' = devs
            /\ Silent
            /\ NoDriverEffect
    /\ UNCHANGED <<memHandles, heap>>

\* drop that ends without the primary_ctx_release call
DropCtx_NoRelease ==
    /\ pc = "drop_ctx"
    /\ devs' = [devs EXCEPT ![loc.h] = NoDevice]
    /\ Return("drop", ResultOf(CUDA_SUCCESS), 0, None)
    /\ Silent
    /\ NoDriverEffect
    /\ UNCHANGED <<memHandles, heap>>

\* primary_ctx_release(..) with the Result let go: drop ends as if it succeeded
DropCtx_Swallowed ==
    /\ pc = "drop_ctx"
    /\ \E st \in Status :
         /\ Issue("cuDevicePrimaryCtxRelease", devs[loc.h].cu_device, st)
         /\ cuDevicePrimaryCtxRelease(devs[loc.h].cu_device, st)
         /\ devs' = [devs EXCEPT ![loc.h] = NoDevice]
         /\ Return("drop", ResultOf(CUDA_SUCCESS), 0, None)
    /\ UNCHANGED <<memHandles, heap>>

DropCtx ==
    /\ pc = "drop_ctx"
    /\ LET ctx == devs[loc.h].cu_primary_ctx IN
       IF ctx # NULL
       THEN \E st \in Status :
              /\ Issue("cuDevicePrimaryCtxRelease", devs[loc.h].cu_device, st)
              /\ cuDevicePrimaryCtxRelease(devs[loc.h].cu_device, st)
              /\ IF ResultOf(st).ok
                 THEN /\ devs' = [devs EXCEPT ![loc.h] = NoDevice]
                      /\ Return("drop", ResultOf(st), 0, None)
                 ELSE /\ devs' = [devs EXCEPT ![loc.h].cu_primary_ctx = NULL,
                                              ![loc.h].live = FALSE]
                      /\ Panic(st)
       ELSE /\ devs' = [devs EXCEPT ![loc.h] = NoDevice]
            /\ Return("drop", ResultOf(CUDA_SUCCESS), 0, None)
            /\ Silent
            /\ NoDriverEffect
    /\ UNCHANGED <<memHandles, heap>>

Next ==
    \/ \E ordinal \in Ordinals : NewInit(ordinal)
    \/ NewGet
    \/ NewRetain
    \/ NewSetCurrent
    \/ NewStream
    \/ \E h \in DevIds : AllocMalloc(h)
    \/ AllocMemset
    \/ \E h \in DevIds, v \in Bytes : TakeMalloc(h, v)
    \/ TakeCopy
    \/ \E h \in DevIds, t \in memHandles : ReleaseCopy(h, t)
    \/ ReleaseSync
    \/ ReleaseFree
    \/ \E h \in DevIds : Synchronize(h)
    \/ \E t \in memHandles : DropHandle(t)
    \/ \E h \in DevIds, m \in ModNames : LoadModule(h, m)
    \/ \E h \in DevIds : DropStart(h)
    \/ DropUnload
    \/ DropStream
    \/ DropCtx
    \/ \E stream \in DevIds : DeviceStep(stream)

Spec == Init /\ [][Next]_vars

\* The program after CudaDevice::new(0) has returned Ok twice: two CudaDevice
\* values on device 0, each with its own stream, and the run goes on from there.
NewCalls(stream) ==
    <<Call("cuInit", 0, CUDA_SUCCESS), Call("cuDeviceGet", 0, CUDA_SUCCESS),
      Call("cuDevicePrimaryCtxRetain", 0, CUDA_SUCCESS),
      Call("cuCtxSetCurrent", CtxOf(0), CUDA_SUCCESS),
      Call("cuStreamCreate", stream, CUDA_SUCCESS)>>

InitShared ==
    /\ devs = [h \in DevIds |-> IF h <= 2 THEN CudaDevice(0, CtxOf(0), h) ELSE NoDevice]
    /\ memHandles = {}
    /\ heap = [b \in Bufs |-> [live |-> FALSE, val |-> 0]]
    /\ pc = "idle"
    /\ loc = NoLoc
    /\ calls = NewCalls(2)
    /\ result = [NoResult EXCEPT !.op = "new",
                                 !.at = [NoLoc EXCEPT !.h = 2, !.ctx = CtxOf(0)]]
    /\ opsLeft = MaxOps
    /\ ctxRef = [d \in 0 .. NumDevices - 1 |-> IF d = 0 THEN 2 ELSE 0]
    /\ current = CtxOf(0)
    /\ streams = {1, 2}
    /\ queue = [h \in DevIds |-> <<>>]
    /\ dalloc = [a \in Addrs |-> 0]
    /\ dmem = [a \in Addrs |-> Uninit]
    /\ allOk = TRUE
    /\ balanced = TRUE
    /\ foreign = FALSE
    /\ released = [a \in Addrs |-> 0]

SpecShared == InitShared /\ [][Next]_vars

\* ------------------------------------------------------------ properties
Returned(op) == pc = "idle" /\ result.op = op
Succeeded(i) == calls[i].st = CUDA_SUCCESS
AllSucceeded == \A i \in 1 .. Len(calls) : Succeeded(i)
Fns == [i \in 1 .. Len(calls) |-> calls[i].fn]
IsPrefix(s, t) == Len(s) <= Len(t) /\ \A i \in 1 .. Len(s) : s[i] = t[i]
Pending(stream, op, ptr) ==
    \E i \in 1 .. Len(queue[stream]) :
        queue[stream][i].op = op /\ queue[stream][i].ptr = ptr

InRelease == pc \in {"release_sync", "release_free"} \/ Returned("release")

\* C1: release issues device-to-host copy, stream synchronize, free, in this
\* order, each only after the one before returned success; the free goes to the
\* pointer that was copied from, and when it is issued (and when release
\* returns after it) no device-to-host copy of that pointer is pending on the
\* stream.
C1_ReleaseCopySyncFree ==
    /\ InRelease =>
          /\ IsPrefix(Fns, <<"cuMemcpyDtoHAsync", "cuStreamSynchronize", "cuMemFreeAsync">>)
          /\ \A i \in 1 .. Len(calls) - 1 : Succeeded(i)
          /\ Len(calls) = 3 => calls[3].arg = calls[1].arg
    /\ pc = "release_free" =>
          /\ Len(calls) = 2
          /\ calls[1].arg = loc.ptr
          /\ ~Pending(devs[loc.h].cu_stream, "dtoh", loc.ptr)
    /\ (Returned("release") /\ Len(calls) = 3) =>
          ~Pending(devs[result.at.h].cu_stream, "dtoh", result.at.ptr)


C1_Witness == Returned("release") /\ result.ok /\ Len(calls) = 3

\* release has returned Ok for a handle that the releasing CudaDevice made
ReleasedOwn(made) ==
    /\ Returned("release")
    /\ result.ok
    /\ result.at.t.made = made
    /\ result.at.t.device = result.at.h

C3_ZeroFill == (ReleasedOwn("alloc") /\ allOk) => result.val = 0

\* The same with every handle released through the CudaDevice that made it.
ZeroFillOwnStream == (ReleasedOwn("alloc") /\ allOk /\ ~foreign) => result.val = 0

\* C4: release takes a handle of each device allocation at most once and
\* issues at most one free in a call; an allocation whose handle release has
\* taken is named by no live handle and by no alloc or take in progress, so no
\* later driver call refers to it.  Every live handle names its own allocation,
\* which has not been freed.
HoldsPtr == pc \in {"alloc_memset", "take_copy", "release_sync", "release_free"}

C4_AtMostOnceRelease ==
    /\ \A a \in Addrs : released[a] <= 1
    /\ \A t \in memHandles : released[t.cu_device_ptr] = 0
    /\ pc \in {"alloc_memset", "take_copy"} => released[loc.ptr] = 0
    /\ \A t \in memHandles : dalloc[t.cu_device_ptr] # 0
    /\ \A t, u \in memHandles : t.cu_device_ptr = u.cu_device_ptr => t = u
    /\ HoldsPtr => /\ dalloc[loc.ptr] # 0
                   /\ \A t \in memHandles : t.cu_device_ptr # loc.ptr
    /\ Returned("release") =>
          /\ \A t \in memHandles : t.cu_device_ptr # result.at.ptr
          /\ result.ok => dalloc[result.at.ptr] = 0
    /\ InRelease =>
          Cardinality({i \in 1 .. Len(calls) : calls[i].fn = "cuMemFreeAsync"}) <= 1

\* release has freed a pointer while another handle is alive
C4_Witness ==
    /\ Returned("release") /\ result.ok
    /\ calls[3].fn = "cuMemFreeAsync" /\ Succeeded(3)
    /\ memHandles # {}

\* C5: once a CudaDevice has been torn down, every device allocation it made
\* has been freed.
C5_ReleasedOnEveryPath ==
    (Returned("drop") /\ result.ok) => \A a \in Addrs : dalloc[a] # result.at.h

\* C6: new issues cuInit, cuDeviceGet, cuDevicePrimaryCtxRetain,
\* cuCtxSetCurrent, cuStreamCreate in this order, a call only after every
\* earlier one returned success, and returns a CudaDevice exactly when all five
\* have succeeded.
InNew ==
    pc \in {"new_get", "new_retain", "new_set_current", "new_stream"} \/ Returned("new")

NewOrder ==
    <<"cuInit", "cuDeviceGet", "cuDevicePrimaryCtxRetain", "cuCtxSetCurrent",
      "cuStreamCreate">>

C6_NewOrder ==
    /\ InNew => /\ IsPrefix(Fns, NewOrder)
                /\ \A i \in 1 .. Len(calls) - 1 : Succeeded(i)
    /\ Returned("new") =>
          /\ result.ok <=> (Len(calls) = 5 /\ AllSucceeded)
          /\ devs[result.at.h].live <=> result.ok
          /\ result.ok => devs[result.at.h] =
                 CudaDevice(calls[2].arg, CtxOf(calls[3].arg), calls[5].arg)

C6_Witness == Returned("new") /\ result.ok /\ devs[result.at.h].live

\* C7: a drop in which every call succeeds unloads each module the CudaDevice
\* held exactly once, then destroys the stream, then releases the primary
\* context, and leaves no module registered.
Unloads == {i \in 1 .. Len(calls) : calls[i].fn = "cuModuleUnload"}

C7_TeardownOrder ==
    (Returned("drop") /\ result.ok) =>
        LET n == Cardinality(result.at.mods) IN
        /\ Len(calls) = n + 2
        /\ Unloads = 1 .. n
        /\ {calls[i].arg : i \in Unloads} = result.at.mods
        /\ calls[n + 1].fn = "cuStreamDestroy"
        /\ calls[n + 2].fn = "cuDevicePrimaryCtxRelease"
        /\ devs[result.at.h].loaded_modules = {}

C7_Witness ==
    /\ Returned("drop") /\ result.ok
    /\ Cardinality(result.at.mods) = MaxModules

\* C8: when new returns an error, no primary-context retain and no stream
\* creation of that call has succeeded without being released again.
Acquired ==
    {i \in 1 .. Len(calls) :
        /\ calls[i].fn \in {"cuDevicePrimaryCtxRetain", "cuStreamCreate"}
        /\ Succeeded(i)}
GivenBack ==
    {i \in 1 .. Len(calls) :
        /\ calls[i].fn \in {"cuDevicePrimaryCtxRelease", "cuStreamDestroy"}
        /\ Succeeded(i)}

C8_NoPartialHandle ==
    (Returned("new") /\ ~result.ok) => Cardinality(Acquired) = Cardinality(GivenBack)

\* C9: new, alloc, take, release and synchronize return Ok exactly when every
\* driver call they issued returned CUDA_SUCCESS; otherwise the call that failed
\* is the last one issued, every call before it succeeded, the error carries
\* its status, and no driver function is called twice.
Fallible == {"new", "alloc", "take", "release", "synchronize"}
Running ==
    pc \in {"new_get", "new_retain", "new_set_current", "new_stream",
            "alloc_memset", "take_copy", "release_sync", "release_free"}

C9_StatusPropagation ==
    /\ Running => AllSucceeded
    /\ (Running \/ (pc = "idle" /\ result.op \in Fallible)) =>
          \A i, j \in 1 .. Len(calls) : calls[i].fn = calls[j].fn => i = j
    /\ (pc = "idle" /\ result.op \in Fallible) =>
          /\ result.ok <=> AllSucceeded
          /\ result.ok => result.err = NoErr
          /\ ~result.ok =>
                /\ \A i \in 1 .. Len(calls) - 1 : Succeeded(i)
                /\ result.err = calls[Len(calls)].st
                /\ result.err # CUDA_SUCCESS

\* release has failed at the synchronize with CUDA_ERROR_OUT_OF_MEMORY
C9_Witness ==
    /\ Returned("release") /\ ~result.ok
    /\ Len(calls) = 2
    /\ result.err = CUDA_ERROR_OUT_OF_MEMORY

\* C10: when alloc or take fails after its allocation succeeded, it has issued
\* no free and the memory it allocated is still allocated.
C10_NoRollback ==
    (pc = "idle" /\ result.op \in {"alloc", "take"}) =>
        /\ \A i \in 1 .. Len(calls) : calls[i].fn # "cuMemFreeAsync"
        /\ (~result.ok /\ Len(calls) = 2) =>
              /\ calls[1].fn = "cuMemAllocAsync" /\ Succeeded(1)
              /\ dalloc[result.at.ptr] = result.at.h

C10_Witness ==
    /\ Returned("take") /\ ~result.ok /\ Len(calls) = 2
    /\ calls[2].fn = "cuMemcpyHtoDAsync"

\* C11: a drop goes on, and ends normally, only while every teardown call has
\* returned CUDA_SUCCESS; when a module unload, the stream destroy or the
\* context release fails, the thread panics at that call, which is the last one
\* issued, and the panic carries its status.
InDrop == pc \in {"drop_modules", "drop_ctx"}
TeardownFns == {"cuModuleUnload", "cuStreamDestroy", "cuDevicePrimaryCtxRelease"}

C11_TeardownFatal ==
    /\ (InDrop \/ Returned("drop") \/ pc = "panicked") =>
          \A i \in 1 .. Len(calls) : calls[i].fn \in TeardownFns
    /\ InDrop => AllSucceeded
    /\ Returned("drop") => (result.ok /\ AllSucceeded)
    /\ pc = "panicked" =>
          /\ result.op = "drop" /\ ~result.ok
          /\ Len(calls) >= 1
          /\ ~Succeeded(Len(calls))
          /\ \A i \in 1 .. Len(calls) - 1 : Succeeded(i)
          /\ result.err = calls[Len(calls)].st
          /\ ~devs[result.at.h].live

\* the stream destroy has failed after the modules were unloaded
C11_Witness ==
    /\ pc = "panicked"
    /\ Len(calls) = 2
    /\ calls[1].fn = "cuModuleUnload"
    /\ calls[2].fn = "cuStreamDestroy"

\* C12: synchronize issues one cuStreamSynchronize on its own stream and
\* returns Ok only when nothing enqueued on that stream is left to execute;
\* alloc and take issue only their allocation, zero-fill and copy, never a
\* synchronize.
C12_SyncSoleBlockingPoint ==
    /\ Returned("synchronize") =>
          /\ Len(calls) = 1
          /\ calls[1].fn = "cuStreamSynchronize"
          /\ calls[1].arg = devs[result.at.h].cu_stream
          /\ result.ok => queue[devs[result.at.h].cu_stream] = <<>>
    /\ (pc \in {"alloc_memset", "take_copy"} \/ Returned("alloc") \/ Returned("take")) =>
          /\ Len(calls) <= 2
          /\ \A i \in 1 .. Len(calls) :
                calls[i].fn \in {"cuMemAllocAsync", "cuMemsetD8Async", "cuMemcpyHtoDAsync"}

\* synchronize has returned Ok after the copy of a take was executed
C12_Witness ==
    /\ Returned("synchronize") /\ result.ok
    /\ \E t \in memHandles :
          /\ t.device = result.at.h
          /\ t.made = "take"
          /\ dmem[t.cu_device_ptr] = t.given

\* take has returned Ok while its copy is still enqueued
TakeReturnsBeforeCopy ==
    /\ Returned("take") /\ result.ok
    /\ Pending(devs[result.at.h].cu_stream, "htod", result.at.ptr)

\* new has returned for an ordinal that names no device
OutOfRange == Returned("new") /\ result.at.ord >= NumDevices

\* The out-of-range half of C13: such a new fails at cuDeviceGet, or before it,
\* with the status the driver returned.
OutOfRangeFails ==
    OutOfRange =>
        /\ ~result.ok
        /\ Len(calls) <= 2
        /\ result.err = calls[Len(calls)].st
        /\ Len(calls) = 2 => result.err = CUDA_ERROR_INVALID_DEVICE

\* C13: no two CudaDevice values are alive for the same ordinal (a second new
\* of an ordinal does not succeed), and new of an out-of-range ordinal fails
\* with the driver's error.
C13_OncePerOrdinal ==
    /\ \A h1, h2 \in DevIds :
          (devs[h1].live /\ devs[h2].live /\ devs[h1].cu_device = devs[h2].cu_device)
             => h1 = h2
    /\ OutOfRangeFails

\* a device-to-host copy into host block b is enqueued on some stream
WritePending(b) ==
    \E s \in DevIds : \E i \in 1 .. Len(queue[s]) :
        queue[s][i].op = "dtoh" /\ queue[s][i].buf = b

\* C14: when release has returned Ok, no device-to-host copy into the returned
\* host buffer is pending on any stream.
C14_VisibleOnReturn ==
    (Returned("release") /\ result.ok) => ~WritePending(result.buf)

\* The copy release itself enqueued has been executed when release returns Ok.
OwnCopyDone ==
    (Returned("release") /\ result.ok) =>
        ~Pending(devs[result.at.h].cu_stream, "dtoh", result.at.ptr)

\* C15: while alloc, take, release or synchronize of a CudaDevice issues its
\* driver calls, and when it returns, the current context of the thread is that
\* CudaDevice's primary context.
MemOps == {"alloc", "take", "release", "synchronize"}

C15_ContextActive ==
    /\ HoldsPtr => current = devs[loc.h].cu_primary_ctx
    /\ (pc = "idle" /\ result.op \in MemOps) =>
          current = devs[result.at.h].cu_primary_ctx

\* CudaDevice values alive on device d
LiveOn(d) == {h \in DevIds : devs[h].live /\ devs[h].cu_device = d}
CallsOf(fn) == {i \in 1 .. Len(calls) : calls[i].fn = fn}

\* C16: a drop whose calls all succeeded has issued exactly one stream destroy,
\* for its own stream, and exactly one primary-context release, for its own
\* device; between operations, as long as every new that retained a context
\* returned its CudaDevice and no teardown call failed, the reference count of
\* each primary context is the number of CudaDevice values alive on the device,
\* so it is back at its first value once they are all dropped.
C16_BalancedRelease ==
    /\ (Returned("drop") /\ result.ok) =>
          /\ Cardinality(CallsOf("cuStreamDestroy")) = 1
          /\ \A i \in CallsOf("cuStreamDestroy") : calls[i].arg = result.at.h
          /\ Cardinality(CallsOf("cuDevicePrimaryCtxRelease")) = 1
          /\ \A i \in CallsOf("cuDevicePrimaryCtxRelease") : calls[i].arg = result.at.dev
          /\ result.at.h \notin streams
    /\ (pc = "idle" /\ balanced) =>
          \A d \in 0 .. NumDevices - 1 : ctxRef[d] = Cardinality(LiveOn(d))

\* two CudaDevice were made and both are dropped, the last one on device 0,
\* whose count is 0 again
C16_Witness ==
    /\ Returned("drop") /\ result.ok /\ balanced
    /\ opsLeft = MaxOps - 4
    /\ result.at.h = 2 /\ result.at.dev = 0
    /\ \A h \in DevIds : ~devs[h].live
    /\ ctxRef[0] = 0

\* C17: every host block that an enqueued copy reads (host-to-device) or
\* writes (device-to-host) is allocated.
C17_HostBufferLifetime ==
    \A s \in DevIds : \A i \in 1 .. Len(queue[s]) :
        queue[s][i].op \in {"htod", "dtoh"} => heap[queue[s][i].buf].live

ReleasedFreshBlock ==
    /\ Returned("release") /\ result.ok
    /\ result.at.t.made = "alloc"
    /\ result.buf # None

=============================================================================
